---- MODULE Spec2Model ----
(***************************************************************************)
(* Query-interpretation pipeline of mercedes-nl-search: the confidence     *)
(* gate, the filter mergers and the three request pipelines                *)
(* (MiddlewareSearch, RAGNaturalLanguageSearch, the /api/search handler    *)
(* going through the index's NL integration and the middleware).           *)
(*                                                                         *)
(* Text is modelled as a sequence of tokens.  A token stands for the       *)
(* literal text it spells; the code's string operations (split, strip,     *)
(* startswith, `in`, replace, concatenation) are computed on the token     *)
(* sequence exactly as Python computes them on the characters, because     *)
(* every pattern the code searches for ("&&", " && ", "categories:=",      *)
(* "categories", the backtick, white space) is a whole number of tokens.   *)
(* Confidence and threshold are hundredths (0.75 is 75).                   *)
(***************************************************************************)
EXTENDS Integers, Sequences, FiniteSets, TLC

\* ------------------------------------------------------------------ text

SP == " "
AMP == "&"
\* the backtick character (a backtick inside a string literal does not lex)
TICK == "BACKTICK"
BSL == "\\"
CATEGORIES == "categories"
ASSIGN == ":="

\* "&&", the separator apply_category_filter and generate_vllm_format split on
AndAnd == <<AMP, AMP>>
\* " && ", the separator every merger joins with
SpacedAnd == <<SP, AMP, AMP, SP>>
\* "categories:="
CategoriesAssign == <<CATEGORIES, ASSIGN>>

\* s[i..] (Python s[i-1:])
Drop(s, n) == SubSeq(s, n + 1, Len(s))

\* str.startswith
StartsWith(s, p) == Len(p) <= Len(s) /\ SubSeq(s, 1, Len(p)) = p

\* str.find, 1-based, 0 when p does not occur in s
Find(s, p) ==
  LET hits == { i \in 1..(Len(s) - Len(p) + 1) : SubSeq(s, i, i + Len(p) - 1) = p }
  IN  IF hits = {} THEN 0 ELSE CHOOSE i \in hits : \A j \in hits : i <= j

\* `p in s`
Contains(s, p) == Find(s, p) # 0

\* str.strip
RECURSIVE LStrip(_)
LStrip(s) == IF s # <<>> /\ Head(s) = SP THEN LStrip(Tail(s)) ELSE s

RECURSIVE RStrip(_)
RStrip(s) ==
  IF s # <<>> /\ s[Len(s)] = SP THEN RStrip(SubSeq(s, 1, Len(s) - 1)) ELSE s

Strip(s) == RStrip(LStrip(s))

\* str.split(sep): leftmost, non-overlapping; always at least one part
RECURSIVE Split(_, _)
Split(s, sep) ==
  LET i == Find(s, sep)
  IN  IF i = 0 THEN <<s>>
      ELSE <<SubSeq(s, 1, i - 1)>> \o Split(Drop(s, i + Len(sep) - 1), sep)

\* sep.join(parts)
RECURSIVE Join(_, _)
Join(parts, sep) ==
  IF parts = <<>> THEN <<>>
  ELSE IF Len(parts) = 1 THEN parts[1]
  ELSE parts[1] \o sep \o Join(Tail(parts), sep)

\* str.replace(tok, repl) for a one-token pattern
RECURSIVE Replace(_, _, _)
Replace(s, tok, repl) ==
  IF s = <<>> THEN <<>>
  ELSE (IF Head(s) = tok THEN repl ELSE <<Head(s)>>) \o Replace(Tail(s), tok, repl)

\* [x.strip() for x in parts]
MapStrip(parts) == [i \in 1..Len(parts) |-> Strip(parts[i])]

\* --------------------------------------------------------------- values

\* An optional text: a dict key that may be missing (dict.get's default applies)
Some(s) == [has |-> TRUE, v |-> s]
Absent == [has |-> FALSE, v |-> <<>>]
\* dict.get(key, ""): the text, "" when the key is missing
GetOrEmpty(o) == IF o.has THEN o.v ELSE <<>>

\* detected_category / category: JSON null (or a missing key, dict.get gives
\* None for both) or a string
CatNull == [t |-> "null", v |-> <<>>]
CatStr(s) == [t |-> "str", v |-> s]
\* Python truthiness of Optional[str]: neither None nor ""
Truthy(cat) == cat.t = "str" /\ cat.v # <<>>

\* category_confidence / confidence: a JSON number (hundredths), JSON null, a
\* non-numeric JSON string, or a missing key
ConfNum(n) == [t |-> "num", v |-> n]
ConfNull == [t |-> "null", v |-> 0]
ConfStr == [t |-> "str", v |-> 0]
ConfAbsent == [t |-> "absent", v |-> 0]
\* dict.get("category_confidence", 0.0)
GetConf(c) == IF c.t = "absent" THEN ConfNum(0) ELSE c

\* ------------------------------------------------------- filter clauses

PRICE == <<"price:<50">>
STOCK == <<"stock_status:=IN_STOCK">>
CatClause(val) == CategoriesAssign \o val

\* Number of category clauses of a filter: the occurrences of "categories:="
RECURSIVE CountCategoryClauses(_)
CountCategoryClauses(s) ==
  LET i == Find(s, CategoriesAssign)
  IN  IF i = 0 THEN 0 ELSE 1 + CountCategoryClauses(Drop(s, i + 1))

\* The clauses of a filter expression: its parts between "&&", trimmed
Clauses(s) == MapStrip(Split(s, AndAnd))

\* A list of non-empty clauses joined by " && " (no empty clause, no leading,
\* trailing or doubled separator, no stray white space)
WellFormed(s) ==
  /\ \A i \in 1..Len(Clauses(s)) : Clauses(s)[i] # <<>>
  /\ s = Join(Clauses(s), SpacedAnd)

\* ------------------------------------------------ the classifier's reply

\* The content of a completion: JSON or not; when JSON, the keys the pipeline
\* reads (filter_by, detected_category | category, category_confidence |
\* confidence)
Content(filter_by, cat, conf) ==
  [ok |-> TRUE, json |-> TRUE, filter_by |-> filter_by, cat |-> cat, conf |-> conf]
\* Content that is not JSON
Malformed ==
  [ok |-> TRUE, json |-> FALSE, filter_by |-> Absent, cat |-> CatNull, conf |-> ConfAbsent]
\* No completion at all: transport error, non-200 status, timeout
Failed ==
  [ok |-> FALSE, json |-> FALSE, filter_by |-> Absent, cat |-> CatNull, conf |-> ConfAbsent]

\* ---------------------------------------- openai_middleware.py: the merger

\* apply_category_filter, lines 413-428: the new clause first, then the old
\* clauses that are neither empty nor a category clause
apply_category_filter_merge(filter_by, detected_category) ==
  LET escaped_category == Replace(detected_category, TICK, <<>>)
      category_filter == CategoriesAssign \o escaped_category
      existing_filter == Strip(GetOrEmpty(filter_by))
      nonempty == SelectSeq(MapStrip(Split(existing_filter, AndAnd)),
                            LAMBDA part : part # <<>>)
      filter_parts == SelectSeq(nonempty,
                                LAMBDA part : ~StartsWith(part, CategoriesAssign))
  IN  IF filter_parts # <<>>
      THEN category_filter \o SpacedAnd \o Join(filter_parts, SpacedAnd)
      ELSE category_filter

\* if params.get("filter_by") == "": params.pop("filter_by")
PopEmpty(filter_by) == IF filter_by.has /\ filter_by.v = <<>> THEN Absent ELSE filter_by

\* apply_category_filter: the content it returns.  The whole body is inside
\* try/except: content that is not JSON, or a confidence the :.2f format of
\* line 404 rejects (None, a string), returns the response unchanged.
apply_category_filter(content, confidence_threshold, for_typesense_nl) ==
  LET category_confidence == GetConf(content.conf)
      confident == /\ Truthy(content.cat)
                   /\ category_confidence.v >= confidence_threshold
  IN  IF ~content.json \/ category_confidence.t # "num" THEN content
      ELSE IF for_typesense_nl
      THEN [ok |-> TRUE, json |-> TRUE,
            filter_by |-> PopEmpty(IF confident
                                   THEN Some(apply_category_filter_merge(
                                               content.filter_by, content.cat.v))
                                   ELSE content.filter_by),
            cat |-> CatNull,
            conf |-> ConfAbsent]
      ELSE [content EXCEPT !.filter_by = PopEmpty(content.filter_by)]

\* generate_vllm_format, lines 722-735: as above, but empty parts are kept
generate_vllm_format_merge(filter_by, detected_category) ==
  LET escaped_category == Replace(detected_category, TICK, <<>>)
      category_filter == CategoriesAssign \o escaped_category
      stripped == Strip(GetOrEmpty(filter_by))
      filter_parts == SelectSeq(MapStrip(Split(stripped, AndAnd)),
                                LAMBDA part : ~StartsWith(part, CategoriesAssign))
      existing_filter == IF filter_parts # <<>> THEN Join(filter_parts, SpacedAnd)
                         ELSE <<>>
  IN  IF existing_filter # <<>>
      THEN category_filter \o SpacedAnd \o existing_filter
      ELSE category_filter

\* The threshold generate_vllm_format and chat_completions gate on
MiddlewareThreshold == 75

\* generate_vllm_format, lines 716-739: the filter_by of the params it returns
generate_vllm_format_filter(content) ==
  LET category_confidence == GetConf(content.conf)
  IN  IF Truthy(content.cat) /\ category_confidence.v >= MiddlewareThreshold
      THEN Some(generate_vllm_format_merge(content.filter_by, content.cat.v))
      ELSE content.filter_by

\* ------------------------------------------------ search_rag.py: the merger

_remove_category_filter(filter_by) ==
  LET filters == Split(filter_by, SpacedAnd)
      remaining_filters == SelectSeq(filters,
                             LAMBDA f : ~StartsWith(Strip(f), <<CATEGORIES>>))
  IN  Strip(Join(remaining_filters, SpacedAnd))

\* _search_with_category_filter, lines 577-595: combined_filter
_search_with_category_filter(category, filter_by) ==
  LET escaped_category == Replace(category, TICK, <<BSL, TICK>>)
      category_filter == CategoriesAssign \o <<TICK>> \o escaped_category \o <<TICK>>
      nl_filter0 == GetOrEmpty(filter_by)
      nl_filter == IF nl_filter0 # <<>> /\ Contains(nl_filter0, CategoriesAssign)
                   THEN _remove_category_filter(nl_filter0)
                   ELSE nl_filter0
  IN  IF nl_filter # <<>>
      THEN category_filter \o SpacedAnd \o nl_filter
      ELSE category_filter

\* RAGNaturalLanguageSearch.search, line 161
RagGate(category, confidence, confidence_threshold) ==
  Truthy(category) /\ confidence >= confidence_threshold

\* ------------------------------------- search_middleware.py: gate and merge

\* The gate with an exclusive comparison
ApiGate_exclusive(detected_category, category_confidence, confidence_threshold) ==
  Truthy(detected_category) /\ category_confidence > confidence_threshold

\* MiddlewareSearch.search, line 103
ApiGate(detected_category, category_confidence, confidence_threshold) ==
  Truthy(detected_category) /\ category_confidence >= confidence_threshold

\* MiddlewareSearch.search, lines 104-108: the clause is appended
MiddlewareSearch_merge(filter_by, detected_category) ==
  LET existing == GetOrEmpty(filter_by)
  IN  (IF existing # <<>> THEN existing \o SpacedAnd ELSE <<>>)
      \o CategoriesAssign \o detected_category

\* _final_search, lines 292-293: filter_by is sent only when it is non-empty
SentFilter(filter_by) == IF GetOrEmpty(filter_by) # <<>> THEN filter_by ELSE Absent

\* ---------------------------------------------------------------- inputs

\* Longest filter expression the classifier returns, in clauses
MaxClauses == 2

CATX == CatClause(<<"X">>)
ClauseSet == {PRICE, STOCK, CATX}

\* Lists of up to MaxClauses distinct clauses
ClauseLists ==
  UNION { { cl \in [1..n -> ClauseSet] : \A i, j \in 1..n : i # j => cl[i] # cl[j] }
          : n \in 0..MaxClauses }

\* The clauses joined with " && " or with "&&"; bare, after white space, before
\* a trailing separator, after a leading separator
Filters ==
  UNION { { Join(cl, sep),
            <<SP>> \o Join(cl, sep),
            Join(cl, sep) \o SpacedAnd,
            AndAnd \o <<SP>> \o Join(cl, sep) } : cl \in ClauseLists, sep \in {SpacedAnd, AndAnd} }

Categories == {CatNull, CatStr(<<>>), CatStr(<<"X">>), CatStr(<<"Y">>)}
\* Category strings that hold characters of the filter grammar: a backtick,
\* and the separator followed by a clause of its own
CraftedCategories ==
  {CatStr(<<"X", TICK>>), CatStr(<<"X">> \o SpacedAnd \o STOCK)}
\* Confidences the classifier may state, in hundredths: around the thresholds,
\* below 0 and above 1
Confidences == {-10, 70, 75, 80, 120}
Thresholds == {75, 80}

\* ------------------------------------------------------------ variables

VARIABLES
  h,              \* the function under study, its arguments and its results
  variant,        \* the pipeline that handles the request
  req,            \* the inbound HTTP request (/api/search only)
  threshold,      \* the caller's confidence_threshold
  validation,     \* the query is one retrieve_products takes as a validation query
  pc,             \* the handler's position
  stack,          \* the calls in progress below the handler, innermost last
  ret,            \* what the last completed call returned to its caller
  calls,          \* every network call issued so far, in order
  llm,            \* the reply of the language model to the classification request
  results,        \* the handler's retrieval results
  classification, \* the Classifier's result as the handler reads it
  retrieval_failed, \* the context-retrieval call to the index failed
  resp            \* the outcome of the request

pvars == <<variant, req, threshold, validation, pc, stack, ret, calls, llm, results,
           classification, retrieval_failed, resp>>
vars == <<h, pvars>>

\* An exception, as the handlers see it: where it was raised and which of the
\* words the handlers look for its text contains (lower-cased)
Exc(src, words) == [src |-> src, words |-> words]
NoError == Exc("none", {})

NoRet == [kind |-> "none", hits |-> "none", parsed |-> Failed, err |-> NoError]
NoClassification == [set |-> FALSE, cat |-> CatNull, conf |-> ConfAbsent]
Pending ==
  [status |-> "pending", category_applied |-> FALSE, detected_category |-> CatNull,
   category_confidence |-> ConfAbsent, code |-> 0, error |-> NoError,
   message |-> "absent"]

\* /api/search: the query ("q") and the result count ("max_results", "limit")
\* of the request, and whether the body of a POST is a JSON object
NoReq == [method |-> "none", query |-> "text", count |-> "absent", body |-> "json"]

\* No request in progress
PIdle ==
  /\ variant = "none" /\ req = NoReq /\ threshold = 0 /\ validation = FALSE
  /\ pc = "idle"
  /\ stack = <<>> /\ ret = NoRet /\ calls = <<>> /\ llm = Failed
  /\ results = NoRet /\ classification = NoClassification
  /\ retrieval_failed = FALSE /\ resp = Pending

\* No function under study
HIdle ==
  [fn |-> "none", step |-> 3, f |-> Absent, cat |-> CatNull, conf |-> 0,
   t |-> 0, applied |-> FALSE, out |-> Absent, out2 |-> Absent]

\* -------------------------------------------- the gates and mergers applied

\* The filter each component hands on for (filter f, category, confidence,
\* threshold): the middleware's two endpoints, the final search of
\* RAGNaturalLanguageSearch.search (none is issued when the gate fails) and the
\* final search of MiddlewareSearch.search
MergedFilter(fn, f, cat, conf, t) ==
  CASE fn = "apply_category_filter" ->
         apply_category_filter(Content(f, cat, ConfNum(conf)), t, TRUE).filter_by
    [] fn = "generate_vllm_format" ->
         generate_vllm_format_filter(Content(f, cat, ConfNum(conf)))
    [] fn = "rag" ->
         IF RagGate(cat, conf, t)
         THEN Some(_search_with_category_filter(cat.v, f)) ELSE Absent
    [] fn = "middleware_search" ->
         SentFilter(IF ApiGate(cat, conf, t)
                    THEN Some(MiddlewareSearch_merge(f, cat.v)) ELSE f)

\* category_applied of the response, for the two search classes
CategoryApplied(fn, cat, conf, t) ==
  CASE fn = "rag" -> RagGate(cat, conf, t)
    [] fn = "middleware_search" -> ApiGate(cat, conf, t)
    [] OTHER -> FALSE

HInit ==
  /\ PIdle
  /\ \E f \in Filters, cat \in Categories \cup CraftedCategories,
        conf \in Confidences, t \in Thresholds :
      h = [fn |-> "none", step |-> 0, f |-> Some(f), cat |-> cat, conf |-> conf,
           t |-> t, applied |-> FALSE, out |-> Absent, out2 |-> Absent]

Apply(fn) ==
  /\ h.step = 0
  /\ h' = [h EXCEPT !.fn = fn, !.step = 1,
                    !.applied = CategoryApplied(fn, h.cat, h.conf, h.t),
                    !.out = MergedFilter(fn, h.f, h.cat, h.conf, h.t)]
  /\ UNCHANGED pvars

H_apply_category_filter == Apply("apply_category_filter")
H_generate_vllm_format == Apply("generate_vllm_format")
H_rag_search == Apply("rag")
H_middleware_search == Apply("middleware_search")

\* The result is merged again with the same category
H_remerge ==
  /\ h.step = 1
  /\ h' = [h EXCEPT !.step = 2,
                    !.out2 = MergedFilter(h.fn, h.out, h.cat, h.conf, h.t)]
  /\ UNCHANGED pvars

HNext ==
  \/ H_apply_category_filter
  \/ H_generate_vllm_format
  \/ H_rag_search
  \/ H_middleware_search
  \/ H_remerge

SpecMerge == HInit /\ [][HNext]_vars

\* ------------------------------------------------------ pipeline: calls

\* ------------------------------------- search_rag.py: the limit extractor

\* A query is a sequence of words; consecutive words are separated by white
\* space, and leading white space is a SP word.  Number words are digit
\* strings.
NumberWords == {"0", "1", "5", "100", "101"}
NumVal(w) ==
  CASE w = "0" -> 0 [] w = "1" -> 1 [] w = "5" -> 5 [] w = "100" -> 100
    [] w = "101" -> 101 [] OTHER -> 0
\* str.lower
Lower(w) == IF w = "TOP" THEN "top" ELSE w
LowerAll(q) == [i \in 1..Len(q) |-> Lower(q[i])]
\* Words that start with one of most|least|top|best|worst|cheapest|expensive
SuperlativeWords == {"most", "top"}
\* Words that end with "top" (the pattern has no word boundary)
TopWords == {"top", "laptop"}
FirstWords == {"first"}

\* First i with q[i] one of the words and q[i+1] a number, 0 if none: the
\* leftmost match of  <word>\s+(\d+)
RECURSIVE FirstFollowedByNumber(_, _, _)
FirstFollowedByNumber(q, words, i) ==
  IF i >= Len(q) THEN 0
  ELSE IF q[i] \in words /\ q[i + 1] \in NumberWords THEN i
  ELSE FirstFollowedByNumber(q, words, i + 1)

\* lines 243-255: what group 1 of each of the four patterns captures in the
\* lower-cased, stripped query, as a number; -1 when the pattern does not match
PatternCapture(k, q) ==
  LET iTop == FirstFollowedByNumber(q, TopWords, 1)
      iFirst == FirstFollowedByNumber(q, FirstWords, 1)
  IN  CASE k = 1 -> IF Len(q) >= 2 /\ q[1] \in NumberWords /\ q[2] \in SuperlativeWords
                    THEN NumVal(q[1]) ELSE -1
        [] k = 2 -> IF iTop # 0 THEN NumVal(q[iTop + 1]) ELSE -1
        [] k = 3 -> IF iFirst # 0 THEN NumVal(q[iFirst + 1]) ELSE -1
        [] OTHER -> IF Len(q) >= 2 /\ q[1] \in NumberWords THEN NumVal(q[1]) ELSE -1

\* _extract_limit_from_query, lines 232-259 (and search.py lines 109-144, the
\* same code): the patterns are tried in order; a match whose number is in
\* 1..100 is returned, any other match is passed over.  0 stands for None.
RECURSIVE TryPatterns(_, _)
TryPatterns(q, k) ==
  IF k > 4 THEN 0
  ELSE IF PatternCapture(k, q) >= 1 /\ PatternCapture(k, q) <= 100
  THEN PatternCapture(k, q)
  ELSE TryPatterns(q, k + 1)

\* The first of the four patterns that matches the query, 0 if none does
FirstMatching(q) ==
  IF \E k \in 1..4 : PatternCapture(k, q) # -1
  THEN CHOOSE k \in 1..4 :
         /\ PatternCapture(k, q) # -1
         /\ \A j \in 1..(k - 1) : PatternCapture(j, q) = -1
  ELSE 0

\* The extractor that lets the first matching pattern decide alone
_extract_limit_first_match(query) ==
  LET q == Strip(LowerAll(query))
      k == FirstMatching(q)
      n == IF k = 0 THEN 0 ELSE PatternCapture(k, q)
  IN  IF n >= 1 /\ n <= 100 THEN n ELSE 0

_extract_limit_from_query(query) == TryPatterns(Strip(LowerAll(query)), 1)

\* search, lines 102-104: `if extracted_limit: max_results = extracted_limit`
EffectiveMaxResults(query, max_results) ==
  IF _extract_limit_from_query(query) # 0
  THEN _extract_limit_from_query(query) ELSE max_results

\* Longest query, in words
MaxQueryLen == 3
QueryWords == NumberWords \cup {"most", "top", "TOP", "first", "gloves", "laptop"}
Queries ==
  UNION { [1..n -> QueryWords] : n \in 0..MaxQueryLen }
  \cup { <<SP>> \o w : w \in [1..2 -> QueryWords] }
\* The caller's max_results
CallerMaxResults == {20, 50}

LInit ==
  /\ PIdle
  /\ \E q \in Queries, m \in CallerMaxResults :
       h = [fn |-> "none", step |-> 0, query |-> q, max_results |-> m,
            extracted_limit |-> 0, effective |-> m]

ExtractLimit(fn) ==
  /\ h.step = 0
  /\ h' = [h EXCEPT !.fn = fn, !.step = 1,
                    !.extracted_limit = _extract_limit_from_query(h.query),
                    !.effective = EffectiveMaxResults(h.query, h.max_results)]
  /\ UNCHANGED pvars

\* RAGNaturalLanguageSearch.search and NaturalLanguageSearch.search
L_rag_search == ExtractLimit("rag")
L_legacy_search == ExtractLimit("legacy")

LNext ==
  \/ L_rag_search
  \/ L_legacy_search

SpecLimit == LInit /\ [][LNext]_vars

\* ------------------------------------------------ the context summarizers

\* s[:n]
Take(s, n) == SubSeq(s, 1, IF n < Len(s) THEN n ELSE Len(s))

\* The concatenation of a list of lists
RECURSIVE Concat(_)
Concat(lists) == IF lists = <<>> THEN <<>> ELSE Head(lists) \o Concat(Tail(lists))

\* category_products[category].append(product): a dict keeps its keys in the
\* order of their first insertion
AppendToCategory(groups, category, product) ==
  IF \E i \in 1..Len(groups) : groups[i].category = category
  THEN [i \in 1..Len(groups) |->
          IF groups[i].category = category
          THEN [groups[i] EXCEPT !.items = Append(@, product)]
          ELSE groups[i]]
  ELSE Append(groups, [category |-> category, items |-> <<product>>])

\* for category in product.categories: ...
RECURSIVE AppendProduct(_, _, _)
AppendProduct(groups, product, k) ==
  IF k > Len(product.categories) THEN groups
  ELSE AppendProduct(AppendToCategory(groups, product.categories[k], product),
                     product, k + 1)

\* _extract_category_context, lines 364-369 (and _extract_context, lines
\* 215-220, build_enriched_prompt, lines 209-214): the products grouped by
\* category, a product under each of its categories
RECURSIVE category_products(_, _)
category_products(products, groups) ==
  IF products = <<>> THEN groups
  ELSE category_products(Tail(products), AppendProduct(groups, Head(products), 1))

\* The groups as they come, in first-seen order
sorted_categories_unsorted(groups) == groups

\* sorted(items, key=lambda x: len(x[1]), reverse=True): most products first;
\* the sort is stable, also when reversed, so groups of equal size keep their
\* order
sorted_categories(groups) ==
  LET n == Len(groups)
      before(j, i) == \/ Len(groups[j].items) > Len(groups[i].items)
                      \/ Len(groups[j].items) = Len(groups[i].items) /\ j < i
      place(i) == Cardinality({j \in 1..n : before(j, i)}) + 1
  IN  [k \in 1..n |-> groups[CHOOSE i \in 1..n : place(i) = k]]

\* RAGNaturalLanguageSearch._extract_category_context, lines 364-392: the
\* first max_categories categories, each with its first samples_per_category
\* products (name, sku and price of each: the product, without its categories)
_extract_category_context(products, max_categories, samples_per_category) ==
  LET top == Take(sorted_categories(category_products(products, <<>>)), max_categories)
  IN  [i \in 1..Len(top) |->
         [category |-> top[i].category,
          samples |-> [k \in 1..Len(Take(top[i].items, samples_per_category)) |->
                         top[i].items[k].id]]]

\* The caps MiddlewareSearch._extract_context and build_enriched_prompt are
\* written with
ContextCategories == 5
ContextSamples == 3
PromptCategories == 5
PromptSamples == 3

\* MiddlewareSearch._extract_context, lines 215-242: one entry for each of the
\* first 3 products of the first 5 categories, in one flat list; an entry keeps
\* the product's categories
MiddlewareSearch_extract_context(products) ==
  LET top == Take(sorted_categories(category_products(products, <<>>)),
                  ContextCategories)
  IN  Concat([i \in 1..Len(top) |-> Take(top[i].items, ContextSamples)])

\* build_enriched_prompt, lines 209-236: category_context, built from the
\* products of the context in the same way
build_enriched_prompt(products) ==
  LET top == Take(sorted_categories(category_products(products, <<>>)),
                  PromptCategories)
  IN  [i \in 1..Len(top) |->
         [category |-> top[i].category,
          samples |-> [k \in 1..Len(Take(top[i].items, PromptSamples)) |->
                         top[i].items[k].id]]]

\* Most products the index returns for a retrieval search
MaxItems == 4

\* A product's categories: the indexer stores them without duplicates
\* (indexer.py, _clean_and_deduplicate_categories)
TagLists == {<<>>, <<"A">>, <<"B">>, <<"A", "B">>, <<"B", "A">>}
SixCategories == {"A", "B", "C", "D", "E", "F"}

\* The retrieved products, in the order of their relevance: product i is the
\* i-th hit
ProductsOf(tags) ==
  [i \in 1..Len(tags) |-> [id |-> i, categories |-> tags[i]]]

\* Up to MaxItems products of one or two out of two categories; and one
\* product for each of six categories, with or without a seventh product
RetrievedLists ==
  {ProductsOf(t) : t \in UNION {[1..n -> TagLists] : n \in 0..MaxItems}}
  \cup {ProductsOf([i \in 1..6 |-> <<t[i]>>] \o extra) :
          t \in {f \in [1..6 -> SixCategories] : \A i, j \in 1..6 : i # j => f[i] # f[j]},
          extra \in {<<>>} \cup {<< <<c>> >> : c \in SixCategories}}

\* max_categories and samples_per_category of the caller
CategoryCaps == {1, 2}
SampleCaps == {1, 2}

XInit ==
  /\ PIdle
  /\ \E products \in RetrievedLists, K \in CategoryCaps, N \in SampleCaps :
       h = [fn |-> "none", step |-> 0, products |-> products,
            max_categories |-> K, samples_per_category |-> N,
            context |-> <<>>, flat |-> <<>>, shown |-> <<>>]

\* RAGNaturalLanguageSearch.search, lines 137-141
X_rag_extract ==
  /\ h.step = 0
  /\ h' = [h EXCEPT !.fn = "rag", !.step = 1,
                    !.context = _extract_category_context(
                                  h.products, h.max_categories, h.samples_per_category)]
  /\ UNCHANGED pvars

\* MiddlewareSearch.search, line 86
X_middleware_extract ==
  /\ h.step = 0
  /\ h' = [h EXCEPT !.fn = "decoupled", !.step = 1,
                    !.flat = MiddlewareSearch_extract_context(h.products)]
  /\ UNCHANGED pvars

\* chat_completions, lines 537-551: the context of the request is the
\* product list the prompt is built from
X_build_enriched_prompt ==
  /\ h.step = 1 /\ h.fn = "decoupled"
  /\ h' = [h EXCEPT !.step = 2,
                    !.context = build_enriched_prompt(h.flat),
                    !.shown = [i \in 1..Len(build_enriched_prompt(h.flat)) |->
                                 build_enriched_prompt(h.flat)[i].category]]
  /\ UNCHANGED pvars

XNext ==
  \/ X_rag_extract
  \/ X_middleware_extract
  \/ X_build_enriched_prompt

SpecContext == XInit /\ [][XNext]_vars

\* --------------------------------------------- the result partitioner

\* Category paths and detected categories are texts of single characters here;
\* str.lower turns the capitals into small letters
LowerChar(c) == CASE c = "G" -> "g" [] c = "L" -> "l" [] OTHER -> c
LowerText(s) == [i \in 1..Len(s) |-> LowerChar(s[i])]

\* A match that tells capitals from small letters
_product_matches_category_exact(product, category) ==
  \E k \in 1..Len(product.categories) : Contains(product.categories[k], category)

\* _product_matches_category, lines 302-307: False without categories;
\* otherwise category.lower() in cat.lower() for one of them
_product_matches_category(product, category) ==
  IF product.categories = <<>> THEN FALSE
  ELSE \E k \in 1..Len(product.categories) :
         Contains(LowerText(product.categories[k]), LowerText(category))

\* search, lines 88-92 and 99: the products of the additional search that
\* match the category, and those that do not, cut at max_results; None when
\* there is none
Partition(all_results, detected_category, max_results) ==
  LET primary_results ==
        SelectSeq(all_results,
                  LAMBDA q : _product_matches_category(q, detected_category))
      additional_results ==
        SelectSeq(all_results,
                  LAMBDA q : ~_product_matches_category(q, detected_category))
  IN  [primary |-> primary_results,
       additional |-> IF additional_results # <<>>
                      THEN Some(Take(additional_results, max_results))
                      ELSE Absent]

\* "Gl", "x/gLo", "lo"
PathGl == <<"G", "l">>
PathXgLo == <<"x", "/", "g", "L", "o">>
PathLo == <<"l", "o">>
\* The categories of a product: none, one path, two paths
PathLists == {<<>>, <<PathGl>>, <<PathXgLo>>, <<PathLo>>, <<PathLo, PathGl>>}
\* The category read off the generated filter: "gl", "Lo", "Glov"
DetectedCategories == {<<"g", "l">>, <<"L", "o">>, <<"G", "l", "o", "v">>}

\* Largest page size asked for
MaxPage == 3

\* What _search_without_category returns for per_page = max_results: at most
\* max_results products ([] also when the search failed)
AdditionalResults(max_results) ==
  {ProductsOf(t) : t \in UNION {[1..n -> PathLists] : n \in 0..max_results}}

PartInit ==
  /\ PIdle
  /\ \E m \in 1..MaxPage : \E all \in AdditionalResults(m), cat \in DetectedCategories :
       h = [fn |-> "none", step |-> 0, all_results |-> all, detected_category |-> cat,
            max_results |-> m, primary |-> <<>>, additional |-> Absent]

\* NaturalLanguageSearch.search, lines 85-92
Part_search ==
  /\ h.step = 0
  /\ LET split == Partition(h.all_results, h.detected_category, h.max_results)
     IN  h' = [h EXCEPT !.fn = "legacy", !.step = 1,
                        !.primary = split.primary, !.additional = split.additional]
  /\ UNCHANGED pvars

PartNext == Part_search

SpecPartition == PartInit /\ [][PartNext]_vars

\* Deepest chain of calls in progress the model follows
MaxDepth == 5

\* A search request to the index: who sends it, what for, the nl_query flag
\* ("true", "false", or "absent" when the key is not sent), the NL model the
\* index is to consult, and filter_by
IndexCall(by, purpose, nl, model, filter_by) ==
  [svc |-> "index", pc |-> "recv", by |-> by, purpose |-> purpose, nl |-> nl,
   model |-> model, filter_by |-> filter_by, ctx |-> "absent"]

\* A POST to the middleware's /v1/chat/completions; ctx is the "context" field
\* of the body: "absent" when the key is not sent (ChatCompletionRequest then
\* defaults it to None), "empty" for [], "some" for a list of products
MiddlewareCall(by, ctx) ==
  [svc |-> "middleware", pc |-> "recv", by |-> by, purpose |-> "classify",
   nl |-> "absent", model |-> "none", filter_by |-> Absent, ctx |-> ctx]

\* A chat completion request sent straight to the language model
OpenAICall(by) ==
  [svc |-> "openai", pc |-> "recv", by |-> by, purpose |-> "classify",
   nl |-> "absent", model |-> "none", filter_by |-> Absent, ctx |-> "absent"]

\* MiddlewareSearch._retrieval_search, lines 179-187
_retrieval_search_request ==
  IndexCall("MiddlewareSearch", "retrieval", "false", "none", Absent)

\* MiddlewareSearch._final_search, lines 283-293
_final_search_request(filter_by) ==
  IndexCall("MiddlewareSearch", "final", "false", "none", SentFilter(filter_by))

\* retrieve_products with the flag enabled and the middleware's own NL model
retrieve_products_request_nl ==
  IndexCall("middleware", "retrieval", "true", "middleware", Absent)

\* retrieve_products, lines 157-167
retrieve_products_request ==
  IndexCall("middleware", "retrieval", "false", "none", Absent)

\* RAGNaturalLanguageSearch._retrieve_semantic_results, lines 281-288
_retrieve_semantic_results_request ==
  IndexCall("rag", "retrieval", "true", "openai", Absent)

\* _retrieve_semantic_results, lines 322-326: the text-only fallback
fallback_request ==
  IndexCall("rag", "fallback", "absent", "none", Absent)

\* The filtered search with the flag enabled
_search_with_category_filter_request_nl(combined_filter) ==
  IndexCall("rag", "final", "true", "openai", Some(combined_filter))

\* _search_with_category_filter, lines 603-609
_search_with_category_filter_request(combined_filter) ==
  IndexCall("rag", "final", "absent", "none", Some(combined_filter))

\* app.py search, lines 144-152: the NL search through the middleware model
app_search_request ==
  IndexCall("app", "search", "true", "middleware", Absent)

Hits(found, parsed) ==
  [kind |-> "hits", hits |-> found, parsed |-> parsed, err |-> NoError]
ErrOf(e) == [kind |-> "error", hits |-> "none", parsed |-> Failed, err |-> e]
\* The middleware answered with a status other than 200
Err == ErrOf(Exc("middleware", {}))
Reply(content) ==
  [kind |-> "content", hits |-> "none", parsed |-> content, err |-> NoError]

Top == stack[Len(stack)]
Pop == SubSeq(stack, 1, Len(stack) - 1)
SetTopPc(p) == [stack EXCEPT ![Len(stack)].pc = p]

\* The caller issues `call`: it is logged and becomes the innermost call
Issue(st, call) ==
  /\ Len(st) < MaxDepth
  /\ stack' = Append(st, call)
  /\ calls' = Append(calls, call)

\* The replies of the language model to the middleware's enriched prompt
ConfValues == {ConfNum(c) : c \in Confidences} \cup {ConfNull, ConfStr, ConfAbsent}
Replies ==
  {Malformed, Content(Absent, CatNull, ConfAbsent)}
  \cup {Content(Some(f), cat, conf) : f \in Filters, cat \in Categories, conf \in ConfValues}

\* The replies of the language model to the RAG classification prompt
RagReplies ==
  {Malformed} \cup {Content(Absent, cat, conf) : cat \in Categories, conf \in ConfValues}

\* The parameters the index's own NL model generates (filters only)
NlParams == {Content(Some(f), CatNull, ConfAbsent) : f \in Filters}

\* ------------------------------------------------------ the index service

\* What can go wrong with a search: the index is unavailable or cannot be
\* reached, it rejects the API key, or anything else.  The text of the
\* exception is the client library's: the handlers only see which of the words
\* they look for it contains.
IndexErrorKinds == {"unavailable", "auth", "other"}
ErrorTexts ==
  {{}, {"unavailable"}, {"cannot connect"}, {"authentication"},
   {"unavailable", "authentication"}}
IndexErrors == {Exc(k, w) : k \in IndexErrorKinds, w \in ErrorTexts}

\* The index cannot be reached, or times out
IndexFail ==
  /\ stack # <<>> /\ Top.svc = "index" /\ Top.pc = "recv"
  /\ stack' = Pop
  /\ \E e \in IndexErrors : ret' = ErrOf(e)
  /\ UNCHANGED <<h, variant, req, threshold, validation, pc, calls, llm, results,
                 classification, retrieval_failed, resp>>

\* A search with classification off: ranked hits, possibly none
IndexPlain ==
  /\ stack # <<>> /\ Top.svc = "index" /\ Top.pc = "recv"
  /\ Top.nl # "true"
  /\ stack' = Pop
  /\ \E found \in {"some", "none"} : ret' = Hits(found, Failed)
  /\ UNCHANGED <<h, variant, req, threshold, validation, pc, calls, llm, results,
                 classification, retrieval_failed, resp>>

\* A search with classification on, NL model registered with the middleware's
\* URL (setup_middleware_model.py): the index posts the query to
\* /v1/chat/completions, without a context
IndexCallsMiddleware ==
  /\ stack # <<>> /\ Top.svc = "index" /\ Top.pc = "recv"
  /\ Top.nl = "true" /\ Top.model = "middleware"
  /\ Issue(SetTopPc("await_model"), MiddlewareCall("index", "absent"))
  /\ ret' = NoRet
  /\ UNCHANGED <<h, variant, req, threshold, validation, pc, llm, results,
                 classification, retrieval_failed, resp>>

\* The middleware has answered: the index searches with the parameters it
\* got and reports them as parsed_nl_query; without usable parameters it
\* searches by keyword
IndexAfterMiddleware ==
  /\ stack # <<>> /\ Top.svc = "index" /\ Top.pc = "await_model"
  /\ ret.kind \in {"content", "error"}
  /\ stack' = Pop
  /\ \E found \in {"some", "none"} :
       ret' = Hits(found, IF ret.kind = "content" /\ ret.parsed.json
                          THEN ret.parsed ELSE Failed)
  /\ UNCHANGED <<h, variant, req, threshold, validation, pc, calls, llm, results,
                 classification, retrieval_failed, resp>>

\* A search with classification on, NL model registered with the language
\* model itself (setup_nl_model.py): the index gets the parameters from it
IndexCallsOpenAI ==
  /\ stack # <<>> /\ Top.svc = "index" /\ Top.pc = "recv"
  /\ Top.nl = "true" /\ Top.model = "openai"
  /\ stack' = Pop
  /\ calls' = Append(calls, OpenAICall("index"))
  /\ \E found \in {"some", "none"}, parsed \in NlParams \cup {Failed} :
       ret' = Hits(found, parsed)
  /\ UNCHANGED <<h, variant, req, threshold, validation, pc, llm, results,
                 classification, retrieval_failed, resp>>

\* ------------------------------- openai_middleware.py: chat_completions

\* The test a non-empty list alone would pass: `if request.context:`
UsesGivenContext_truthy(ctx) == ctx = "some"

\* chat_completions, line 537: `if request.context is not None`
UsesGivenContext(ctx) == ctx # "absent"

\* chat_completions, lines 537-545, and retrieve_products, lines 149-169: the
\* context given in the request is used as it is; without one the middleware
\* retrieves products itself, unless the query is a validation query
MiddlewareContext ==
  /\ stack # <<>> /\ Top.svc = "middleware" /\ Top.pc = "recv"
  /\ IF UsesGivenContext(Top.ctx) \/ validation
     THEN /\ stack' = SetTopPc("enrich")
          /\ UNCHANGED calls
     ELSE Issue(SetTopPc("await_retrieve"), retrieve_products_request)
  /\ ret' = NoRet
  /\ UNCHANGED <<h, variant, req, threshold, validation, pc, llm, results,
                 classification, retrieval_failed, resp>>

\* retrieve_products, lines 169-190: the hits, or [] when the search raised
MiddlewareRetrieved ==
  /\ stack # <<>> /\ Top.svc = "middleware" /\ Top.pc = "await_retrieve"
  /\ ret.kind \in {"hits", "error"}
  /\ stack' = SetTopPc("enrich")
  /\ retrieval_failed' = (retrieval_failed \/ ret.kind = "error")
  /\ ret' = NoRet
  /\ UNCHANGED <<h, variant, req, threshold, validation, pc, calls, llm, results,
                 classification, resp>>

\* chat_completions, lines 547-577: the enriched prompt goes to the language
\* model; a failed call is answered with status 500, a completion is passed
\* through apply_category_filter in Typesense-NL mode with the default
\* threshold and returned
MiddlewareClassify ==
  /\ stack # <<>> /\ Top.svc = "middleware" /\ Top.pc = "enrich"
  /\ stack' = Pop
  /\ calls' = Append(calls, OpenAICall("middleware"))
  /\ \E reply \in Replies \cup {Failed} :
       /\ llm' = reply
       /\ ret' = IF reply.ok
                 THEN Reply(apply_category_filter(reply, MiddlewareThreshold, TRUE))
                 ELSE Err
  /\ UNCHANGED <<h, variant, req, threshold, validation, pc, results,
                 classification, retrieval_failed, resp>>

\* ------------------------------------------------------------- outcomes

\* A SearchResponse was returned
Response(applied, cat, conf) ==
  [status |-> "response", category_applied |-> applied, detected_category |-> cat,
   category_confidence |-> conf, code |-> 0, error |-> NoError,
   message |-> "absent"]
\* An exception left the search method
Raised == [Pending EXCEPT !.status = "raised"]
\* The /api/search handler answered with an error body
ErrorResponse(code, error, message) ==
  [Pending EXCEPT !.status = "error_response", !.code = code, !.error = error,
                  !.message = message]

\* ------------------------------ search_middleware.py: MiddlewareSearch.search

\* _extract_context, lines 208-242: one entry per product of the five largest
\* categories; no hits, or hits that carry no category, give []
_extract_context(found) ==
  IF found = "none" THEN {"empty"} ELSE {"empty", "some"}

\* lines 80-82: the retrieval search
D_Retrieve ==
  /\ variant = "decoupled" /\ pc = "start"
  /\ Issue(stack, _retrieval_search_request)
  /\ pc' = "await_retrieval"
  /\ ret' = NoRet
  /\ UNCHANGED <<h, variant, req, threshold, validation, llm, results,
                 classification, retrieval_failed, resp>>

\* lines 82-90: _retrieval_search has no handler, an index error leaves
\* search(); otherwise the context goes to the middleware
D_AfterRetrieval ==
  /\ variant = "decoupled" /\ pc = "await_retrieval" /\ stack = <<>>
  /\ ret.kind \in {"hits", "error"}
  /\ IF ret.kind = "error"
     THEN /\ pc' = "done"
          /\ resp' = Raised
          /\ retrieval_failed' = TRUE
          /\ UNCHANGED <<stack, calls, results>>
     ELSE /\ \E context \in _extract_context(ret.hits) :
               Issue(stack, MiddlewareCall("MiddlewareSearch", context))
          /\ pc' = "await_middleware"
          /\ results' = ret
          /\ UNCHANGED <<resp, retrieval_failed>>
  /\ ret' = NoRet
  /\ UNCHANGED <<h, variant, req, threshold, validation, llm, classification>>

\* lines 90-113: a status other than 200 raises (_call_middleware, line 267),
\* content that is not JSON raises (json.loads, line 276), comparing a null
\* or string confidence with the threshold raises (line 103); otherwise the
\* gate decides, the clause is appended and the final search is issued
D_AfterMiddleware ==
  /\ variant = "decoupled" /\ pc = "await_middleware" /\ stack = <<>>
  /\ ret.kind \in {"content", "error"}
  /\ LET search_params == ret.parsed
         detected_category == search_params.cat
         category_confidence == GetConf(search_params.conf)
         raises == \/ ret.kind = "error"
                   \/ ~search_params.json
                   \/ Truthy(detected_category) /\ category_confidence.t # "num"
         category_applied ==
           ~raises /\ ApiGate(detected_category, category_confidence.v, threshold)
         filter_by == IF category_applied
                      THEN Some(MiddlewareSearch_merge(search_params.filter_by,
                                                       detected_category.v))
                      ELSE search_params.filter_by
     IN  IF raises
         THEN /\ pc' = "done"
              /\ resp' = Raised
              /\ UNCHANGED <<stack, calls, classification>>
         ELSE /\ Issue(stack, _final_search_request(filter_by))
              /\ pc' = "await_final"
              /\ classification' = [set |-> TRUE, cat |-> detected_category,
                                    conf |-> category_confidence]
              /\ resp' = [Pending EXCEPT !.category_applied = category_applied]
  /\ ret' = NoRet
  /\ UNCHANGED <<h, variant, req, threshold, validation, llm, results, retrieval_failed>>

\* lines 113-170: an index error leaves search(); SearchResponse
\* (models.py:61, Optional[float]) rejects a non-numeric string confidence
D_AfterFinal ==
  /\ variant = "decoupled" /\ pc = "await_final" /\ stack = <<>>
  /\ ret.kind \in {"hits", "error"}
  /\ pc' = "done"
  /\ resp' = IF ret.kind = "error" \/ classification.conf.t = "str"
             THEN Raised
             ELSE Response(resp.category_applied, classification.cat,
                           classification.conf)
  /\ ret' = NoRet
  /\ UNCHANGED <<h, variant, req, threshold, validation, stack, calls, llm, results,
                 classification, retrieval_failed>>

\* ------------------------------ search_rag.py: RAGNaturalLanguageSearch.search

\* A classification that never becomes available to search()
_classify_category_with_llm_unset(reply) ==
  [set |-> FALSE, cat |-> reply.cat, conf |-> GetConf(reply.conf)]

\* _classify_category_with_llm, lines 416-474: any exception (no completion,
\* content that is not JSON, float() of null or of a non-numeric string)
\* gives category None and confidence 0.0; a missing confidence is 0.0
_classify_category_with_llm(reply) ==
  IF ~reply.ok \/ ~reply.json \/ reply.conf.t \in {"null", "str"}
  THEN [set |-> TRUE, cat |-> CatNull, conf |-> ConfNum(0)]
  ELSE [set |-> TRUE, cat |-> reply.cat, conf |-> GetConf(reply.conf)]

\* lines 106-111
R_Retrieve ==
  /\ variant = "rag" /\ pc = "start"
  /\ Issue(stack, _retrieve_semantic_results_request)
  /\ pc' = "await_retrieval"
  /\ ret' = NoRet
  /\ UNCHANGED <<h, variant, req, threshold, validation, llm, results,
                 classification, retrieval_failed, resp>>

\* _retrieve_semantic_results, lines 294-331: on an error the text-only
\* search is tried
R_AfterRetrieval ==
  /\ variant = "rag" /\ pc = "await_retrieval" /\ stack = <<>>
  /\ ret.kind \in {"hits", "error"}
  /\ IF ret.kind = "error"
     THEN /\ Issue(stack, fallback_request)
          /\ pc' = "await_fallback"
          /\ retrieval_failed' = TRUE
          /\ UNCHANGED results
     ELSE /\ pc' = "retrieved"
          /\ results' = ret
          /\ UNCHANGED <<stack, calls, retrieval_failed>>
  /\ ret' = NoRet
  /\ UNCHANGED <<h, variant, req, threshold, validation, llm, classification, resp>>

\* _retrieve_semantic_results, lines 327-334: the fallback's error is re-raised
R_AfterFallback ==
  /\ variant = "rag" /\ pc = "await_fallback" /\ stack = <<>>
  /\ ret.kind \in {"hits", "error"}
  /\ IF ret.kind = "error"
     THEN /\ pc' = "done"
          /\ resp' = Raised
          /\ UNCHANGED results
     ELSE /\ pc' = "retrieved"
          /\ results' = ret
          /\ UNCHANGED resp
  /\ ret' = NoRet
  /\ UNCHANGED <<h, variant, req, threshold, validation, stack, calls, llm,
                 classification, retrieval_failed>>

\* lines 114-190: no product, an empty response; otherwise the language model
\* classifies, the gate decides and, when it passes, the final search is issued
R_Classify ==
  /\ variant = "rag" /\ pc = "retrieved" /\ stack = <<>>
  /\ IF results.hits = "none"
     THEN /\ pc' = "done"
          /\ resp' = Response(FALSE, CatNull, ConfNum(0))
          /\ UNCHANGED <<stack, calls, llm, classification>>
     ELSE \E reply \in RagReplies \cup {Failed} :
            LET c == _classify_category_with_llm(reply)
                parsed_params == IF results.parsed.json
                                 THEN results.parsed.filter_by ELSE Absent
                final == _search_with_category_filter_request(
                           _search_with_category_filter(c.cat.v, parsed_params))
            IN  /\ llm' = reply
                /\ classification' = c
                /\ IF RagGate(c.cat, c.conf.v, threshold)
                   THEN /\ stack' = <<final>>
                        /\ calls' = calls \o <<OpenAICall("rag"), final>>
                        /\ pc' = "await_final"
                        /\ UNCHANGED resp
                   ELSE /\ calls' = Append(calls, OpenAICall("rag"))
                        /\ pc' = "done"
                        /\ resp' = Response(FALSE, c.cat, c.conf)
                        /\ UNCHANGED stack
  /\ ret' = NoRet
  /\ UNCHANGED <<h, variant, req, threshold, validation, results, retrieval_failed>>

\* lines 166-230, _search_with_category_filter lines 611-628: an index error
\* is re-raised
R_AfterFinal ==
  /\ variant = "rag" /\ pc = "await_final" /\ stack = <<>>
  /\ ret.kind \in {"hits", "error"}
  /\ pc' = "done"
  /\ resp' = IF ret.kind = "error" THEN Raised
             ELSE Response(TRUE, classification.cat, classification.conf)
  /\ ret' = NoRet
  /\ UNCHANGED <<h, variant, req, threshold, validation, stack, calls, llm, results,
                 classification, retrieval_failed>>

\* ----------------------------------------------------- app.py: /api/search

\* The confidence and the threshold the handler reports (lines 205, 215)
AppConfidence == 85
AppThreshold == 75

\* lines 200-203: re.search(r'categories:=`?([^`&]+)`?', filter_by), group 1
\* stripped; None when nothing matches
RECURSIVE RunOfValue(_)
RunOfValue(s) ==
  IF s = <<>> \/ Head(s) \in {TICK, AMP} THEN <<>>
  ELSE <<Head(s)>> \o RunOfValue(Tail(s))

RECURSIVE AppDetectedCategory(_)
AppDetectedCategory(filter_by) ==
  LET i == Find(filter_by, CategoriesAssign)
      after == Drop(filter_by, i + 1)
      value == IF after # <<>> /\ Head(after) = TICK THEN Tail(after) ELSE after
  IN  IF i = 0 THEN CatNull
      ELSE IF RunOfValue(value) # <<>> THEN CatStr(Strip(RunOfValue(value)))
      ELSE IF RunOfValue(after) # <<>> THEN CatStr(Strip(RunOfValue(after)))
      ELSE AppDetectedCategory(after)

\* The fixed texts of the error bodies
Literal(text) == Exc(text, {})
MissingQueryBody == Literal("Missing 'query' in request body")
MissingQParam == Literal("Missing 'q' query parameter")
ConfigurationError == Literal("Configuration error")

\* lines 241-261 (and 297-317 in search_get): the except branch answers by the
\* words of str(e)
HandleException(e) ==
  IF "unavailable" \in e.words \/ "cannot connect" \in e.words
  THEN ErrorResponse(503, e, "Search service is currently unavailable")
  ELSE IF "authentication" \in e.words
  THEN ErrorResponse(500, ConfigurationError, "Search service configuration error")
  ELSE ErrorResponse(500, e, "An error occurred while processing your search")

\* search, lines 120-133: what the POST handler answers before it searches;
\* Pending when it goes on to search.  A body that is not JSON makes
\* get_json raise, a count SearchQuery rejects (models.py:44) raises
\* ValidationError; both are caught by the except branch.
search_before_index(r) ==
  IF r.body # "json" THEN HandleException(Exc("BadRequest", {}))
  ELSE IF r.query = "absent" THEN ErrorResponse(400, MissingQueryBody, "absent")
  ELSE IF r.count \in {"out_of_range", "not_int"}
  THEN HandleException(Exc("ValidationError", {}))
  ELSE Pending

\* search_get, lines 276-295: int() of the limit first, then the query check,
\* then search() on a POST request built from the parameters
search_get_before_index(r) ==
  IF r.count = "not_int" THEN HandleException(Exc("ValueError", {}))
  ELSE IF r.query \in {"absent", "empty"} THEN ErrorResponse(400, MissingQParam, "absent")
  ELSE search_before_index([r EXCEPT !.body = "json"])

BeforeIndex(r) ==
  IF r.method = "GET" THEN search_get_before_index(r) ELSE search_before_index(r)

\* lines 120-159: the request is parsed and validated, then the search is sent
N_Search ==
  /\ variant = "nl" /\ pc = "start"
  /\ IF BeforeIndex(req).status = "pending"
     THEN /\ Issue(stack, app_search_request)
          /\ pc' = "await_search"
          /\ UNCHANGED resp
     ELSE /\ pc' = "done"
          /\ resp' = BeforeIndex(req)
          /\ UNCHANGED <<stack, calls>>
  /\ ret' = NoRet
  /\ UNCHANGED <<h, variant, req, threshold, validation, llm, results,
                 classification, retrieval_failed>>

\* lines 159-261: an index error is answered by the except branch; otherwise
\* the category fields are read off the filter the middleware generated
N_AfterSearch ==
  /\ variant = "nl" /\ pc = "await_search" /\ stack = <<>>
  /\ ret.kind \in {"hits", "error"}
  /\ pc' = "done"
  /\ results' = ret
  /\ LET filter_by == IF ret.parsed.json THEN GetOrEmpty(ret.parsed.filter_by)
                      ELSE <<>>
         detected_category == AppDetectedCategory(filter_by)
         ok(applied, cat, conf) == [Response(applied, cat, conf) EXCEPT !.code = 200]
     IN  resp' = IF ret.kind = "error" THEN HandleException(ret.err)
                 ELSE IF Contains(filter_by, CategoriesAssign)
                 THEN ok(TRUE, detected_category,
                         IF detected_category # CatNull
                         THEN ConfNum(AppConfidence) ELSE ConfNum(0))
                 ELSE ok(FALSE, CatNull, ConfNum(0))
  /\ ret' = NoRet
  /\ UNCHANGED <<h, variant, req, threshold, validation, stack, calls, llm,
                 classification, retrieval_failed>>

\* The requests /api/search may receive
Requests ==
  [method : {"POST", "GET"}, query : {"absent", "empty", "text"},
   count : {"absent", "ok", "out_of_range", "not_int"}, body : {"json"}]
  \cup {[method |-> "POST", query |-> "absent", count |-> "absent",
         body |-> "not_json"]}

\* --------------------------------- search.py: NaturalLanguageSearch.search

\* _execute_nl_search, lines 158-165
_execute_nl_search_request ==
  IndexCall("legacy", "search", "true", "openai", Absent)
\* _execute_nl_search, lines 210-214: the keyword-only fallback
_execute_nl_search_fallback_request ==
  IndexCall("legacy", "fallback", "absent", "none", Absent)
\* _search_without_category, lines 374-382
_search_without_category_request(filter_by) ==
  IndexCall("legacy", "additional", "absent", "none", SentFilter(Some(filter_by)))

\* The texts NaturalLanguageSearch raises in place of the client's (lines
\* 190-201, 220-228)
AuthenticationFailed == Exc("Search service authentication failed", {"authentication"})
TemporarilyUnavailable == Exc("Search service is temporarily unavailable", {"unavailable"})

RaisedWith(e) == [Raised EXCEPT !.error = e]

\* _extract_category_from_filter, lines 282-288:
\* re.search(r'categories:=\[?([^\],\)&]+)', filter_by), group 1 stripped;
\* None when nothing matches
RECURSIVE RunToAmp(_)
RunToAmp(s) ==
  IF s = <<>> \/ Head(s) = AMP THEN <<>>
  ELSE <<Head(s)>> \o RunToAmp(Tail(s))

RECURSIVE _extract_category_from_filter(_)
_extract_category_from_filter(filter_by) ==
  LET i == Find(filter_by, CategoriesAssign)
      after == Drop(filter_by, i + 1)
  IN  IF i = 0 THEN CatNull
      ELSE IF RunToAmp(after) # <<>> THEN CatStr(Strip(RunToAmp(after)))
      ELSE _extract_category_from_filter(after)

\* Products the index returns when it returns some
ProductsReturned == 2
\* _calculate_category_confidence, lines 349-359: the share of the products
\* that match the category, in hundredths; 0.0 without products
LegacyConfidences(hits) ==
  IF hits = "none" THEN {0}
  ELSE {(matching * 100) \div ProductsReturned : matching \in 0..ProductsReturned}

\* search, line 44
Legacy_Search ==
  /\ variant = "legacy" /\ pc = "start"
  /\ Issue(stack, _execute_nl_search_request)
  /\ pc' = "await_search"
  /\ ret' = NoRet
  /\ UNCHANGED <<h, variant, req, threshold, validation, llm, results,
                 classification, retrieval_failed, resp>>

\* _execute_nl_search, lines 190-216, and search, lines 47-107.  The client's
\* exceptions for a rejected key, a failed connection, an unavailable service
\* or a server error are re-raised with the texts above; another client error
\* is re-raised with its text, any other exception sends the fallback.
\* With hits: the category is read off the generated filter, the confidence
\* is the share of matching products, category_applied is set, and below the
\* threshold a search without the category clause is added.
Legacy_AfterSearch ==
  /\ variant = "legacy" /\ pc = "await_search" /\ stack = <<>>
  /\ ret.kind \in {"hits", "error"}
  /\ results' = ret
  /\ IF ret.kind = "error"
     THEN /\ UNCHANGED classification
          /\ \/ /\ ret.err.src \in {"auth", "unavailable"}
                /\ pc' = "done"
                /\ resp' = RaisedWith(IF ret.err.src = "auth" THEN AuthenticationFailed
                                      ELSE TemporarilyUnavailable)
                /\ UNCHANGED <<stack, calls>>
             \/ /\ ret.err.src = "other"
                /\ pc' = "done"
                /\ resp' = RaisedWith(Exc("Search service error", ret.err.words))
                /\ UNCHANGED <<stack, calls>>
             \/ /\ ret.err.src = "other"
                /\ Issue(stack, _execute_nl_search_fallback_request)
                /\ pc' = "await_fallback"
                /\ UNCHANGED resp
     ELSE LET filter_by == IF ret.parsed.json THEN GetOrEmpty(ret.parsed.filter_by)
                           ELSE <<>>
              detected_category ==
                IF Contains(filter_by, CategoriesAssign)
                THEN _extract_category_from_filter(filter_by) ELSE CatNull
          IN  IF Truthy(detected_category)
              THEN \E category_confidence \in LegacyConfidences(ret.hits) :
                     /\ classification' = [set |-> TRUE, cat |-> detected_category,
                                           conf |-> ConfNum(category_confidence)]
                     /\ IF category_confidence < threshold /\ ret.hits = "some"
                        THEN /\ Issue(stack, _search_without_category_request(
                                               _remove_category_filter(filter_by)))
                             /\ pc' = "await_additional"
                             /\ UNCHANGED resp
                        ELSE /\ pc' = "done"
                             /\ resp' = Response(TRUE, detected_category,
                                                 ConfNum(category_confidence))
                             /\ UNCHANGED <<stack, calls>>
              ELSE /\ pc' = "done"
                   /\ resp' = Response(FALSE, CatNull, ConfNum(0))
                   /\ UNCHANGED <<stack, calls, classification>>
  /\ ret' = NoRet
  /\ UNCHANGED <<h, variant, req, threshold, validation, llm, retrieval_failed>>

\* _execute_nl_search, lines 215-228: the fallback's hits carry no generated
\* parameters; its failure is raised as "temporarily unavailable"
Legacy_AfterFallback ==
  /\ variant = "legacy" /\ pc = "await_fallback" /\ stack = <<>>
  /\ ret.kind \in {"hits", "error"}
  /\ pc' = "done"
  /\ resp' = IF ret.kind = "error" THEN RaisedWith(TemporarilyUnavailable)
             ELSE Response(FALSE, CatNull, ConfNum(0))
  /\ ret' = NoRet
  /\ UNCHANGED <<h, variant, req, threshold, validation, stack, calls, llm,
                 results, classification, retrieval_failed>>

\* _search_without_category, lines 384-405, and search, lines 85-107: the
\* client's own exceptions are re-raised, any other gives no additional result
Legacy_AfterAdditional ==
  /\ variant = "legacy" /\ pc = "await_additional" /\ stack = <<>>
  /\ ret.kind \in {"hits", "error"}
  /\ pc' = "done"
  /\ \/ /\ ret.kind = "error" /\ ret.err.src \in {"auth", "unavailable"}
        /\ resp' = RaisedWith(IF ret.err.src = "auth" THEN AuthenticationFailed
                              ELSE TemporarilyUnavailable)
     \/ /\ ret.kind = "hits" \/ ret.err.src = "other"
        /\ resp' = Response(TRUE, classification.cat, classification.conf)
  /\ ret' = NoRet
  /\ UNCHANGED <<h, variant, req, threshold, validation, stack, calls, llm,
                 results, classification, retrieval_failed>>

\* ------------------------- two requests to MiddlewareSearch.search at once

\* What the services answer to the calls of one request: the retrieval
\* search, the language model behind the middleware, the final search
ConcRetrievalReplies ==
  {Hits("some", Failed), Hits("none", Failed), ErrOf(Exc("typesense", {}))}
ConcLlmReplies ==
  {Failed, Malformed,
   Content(Some(PRICE), CatStr(<<"X">>), ConfNum(80)),
   Content(Some(STOCK), CatStr(<<"X">>), ConfStr)}
ConcFinalReplies == {Hits("some", Failed), ErrOf(Exc("typesense", {}))}
ServiceReplies ==
  [retrieval : ConcRetrievalReplies, llm : ConcLlmReplies, final : ConcFinalReplies]

ConcRequests == {1, 2}

\* search_middleware.py search, lines 82-109: the local variables of one call
NoLocals ==
  [retrieval_results |-> "none", middleware_response |-> NoRet,
   search_params |-> Failed, category_applied |-> FALSE, filter_by |-> Absent]

\* What a call has returned so far: the response (or the exception) and the
\* "filters_applied" of its typesense_query (line 158)
NoOutcome == [resp |-> Pending, filters_applied |-> <<>>]

\* The names retrieval_results, context, middleware_response, search_params,
\* detected_category, category_confidence, filter_by and category_applied are
\* local variables of search(): every call has a frame of its own.  The
\* objects the calls share (self.typesense_client, self.middleware_url,
\* self.collection_name, the module-level typesense_client of app.py:40 and of
\* openai_middleware.py:52) are assigned at construction and only read.
FrameOf_shared(request) == 1
FrameOf(request) == request

\* One step of search(), from one point where the call waits for a service
\* to the next, on the frame `locals`:
\*   start      line 82       the retrieval search returns or raises
\*   retrieved  lines 86-90   the context is extracted, the middleware
\*                            (chat_completions, lines 547-577) answers
\*   classified lines 94-113  the answer is parsed, the gate decides, the
\*                            final search is issued
\*   final      lines 113-170 the final search returns or raises, the
\*                            response is built
search_step(at, locals, replies, confidence_threshold) ==
  CASE at = "start" ->
         IF replies.retrieval.kind = "error"
         THEN [pc |-> "done", locals |-> locals,
               out |-> [NoOutcome EXCEPT !.resp = Raised]]
         ELSE [pc |-> "retrieved",
               locals |-> [locals EXCEPT !.retrieval_results = replies.retrieval.hits],
               out |-> NoOutcome]
    [] at = "retrieved" ->
         [pc |-> "classified",
          locals |-> [locals EXCEPT !.middleware_response =
                        IF replies.llm.ok
                        THEN Reply(apply_category_filter(replies.llm,
                                                         MiddlewareThreshold, TRUE))
                        ELSE Err],
          out |-> NoOutcome]
    [] at = "classified" ->
         LET middleware_response == locals.middleware_response
             search_params == middleware_response.parsed
             detected_category == search_params.cat
             category_confidence == GetConf(search_params.conf)
             raises == \/ middleware_response.kind = "error"
                       \/ ~search_params.json
                       \/ Truthy(detected_category) /\ category_confidence.t # "num"
             category_applied ==
               ~raises /\ ApiGate(detected_category, category_confidence.v,
                                  confidence_threshold)
             filter_by == IF category_applied
                          THEN Some(MiddlewareSearch_merge(search_params.filter_by,
                                                           detected_category.v))
                          ELSE search_params.filter_by
         IN  IF raises
             THEN [pc |-> "done", locals |-> locals,
                   out |-> [NoOutcome EXCEPT !.resp = Raised]]
             ELSE [pc |-> "final",
                   locals |-> [locals EXCEPT !.search_params = search_params,
                                             !.category_applied = category_applied,
                                             !.filter_by = filter_by],
                   out |-> NoOutcome]
    [] OTHER ->
         LET search_params == locals.search_params
             category_confidence == GetConf(search_params.conf)
         IN  [pc |-> "done", locals |-> locals,
              out |-> IF replies.final.kind = "error" \/ category_confidence.t = "str"
                      THEN [NoOutcome EXCEPT !.resp = Raised]
                      ELSE [resp |-> Response(locals.category_applied,
                                              search_params.cat, category_confidence),
                            filters_applied |-> GetOrEmpty(locals.filter_by)]]

\* search() called once, with nothing else running: the steps one after the
\* other on one frame
RECURSIVE search_alone_from(_, _, _, _)
search_alone_from(at, locals, replies, confidence_threshold) ==
  LET next == search_step(at, locals, replies, confidence_threshold)
  IN  IF next.pc = "done" THEN next.out
      ELSE search_alone_from(next.pc, next.locals, replies, confidence_threshold)
search_alone(replies, confidence_threshold) ==
  search_alone_from("start", NoLocals, replies, confidence_threshold)

ConcInit ==
  /\ PIdle
  /\ \E replies \in [ConcRequests -> ServiceReplies], t \in Thresholds :
       h = [fn |-> "concurrent", step |-> 0, replies |-> replies, t |-> t,
            at |-> [r \in ConcRequests |-> "start"],
            frames |-> [r \in ConcRequests |-> NoLocals],
            out |-> [r \in ConcRequests |-> NoOutcome]]

\* The scheduler runs the next step of one of the calls in flight
Conc_search_step ==
  /\ h.fn = "concurrent"
  /\ \E r \in ConcRequests :
       /\ h.at[r] # "done"
       /\ LET next == search_step(h.at[r], h.frames[FrameOf(r)], h.replies[r], h.t)
          IN  h' = [h EXCEPT !.step = h.step + 1,
                             !.at[r] = next.pc,
                             !.frames[FrameOf(r)] = next.locals,
                             !.out[r] = next.out]
  /\ UNCHANGED pvars

ConcNext == Conc_search_step

SpecConcurrent == ConcInit /\ [][ConcNext]_vars

\* ------------------------------------------------------ the specification

Init ==
  /\ h = HIdle
  /\ variant \in {"decoupled", "rag", "nl", "legacy"}
  /\ req \in (IF variant = "nl" THEN Requests ELSE {NoReq})
  /\ threshold \in (IF variant = "nl" THEN {AppThreshold} ELSE Thresholds)
  /\ validation \in (IF variant = "nl" THEN BOOLEAN ELSE {FALSE})
  /\ pc = "start"
  /\ stack = <<>> /\ ret = NoRet /\ calls = <<>> /\ llm = Failed
  /\ results = NoRet /\ classification = NoClassification
  /\ retrieval_failed = FALSE /\ resp = Pending

Next ==
  \/ IndexFail
  \/ IndexPlain
  \/ IndexCallsMiddleware
  \/ IndexAfterMiddleware
  \/ IndexCallsOpenAI
  \/ MiddlewareContext
  \/ MiddlewareRetrieved
  \/ MiddlewareClassify
  \/ D_Retrieve
  \/ D_AfterRetrieval
  \/ D_AfterMiddleware
  \/ D_AfterFinal
  \/ R_Retrieve
  \/ R_AfterRetrieval
  \/ R_AfterFallback
  \/ R_Classify
  \/ R_AfterFinal
  \/ N_Search
  \/ N_AfterSearch
  \/ Legacy_Search
  \/ Legacy_AfterSearch
  \/ Legacy_AfterFallback
  \/ Legacy_AfterAdditional

Spec == Init /\ [][Next]_vars

\* ============================================================ properties

\* The gate passed for the arguments of h
HGate == Truthy(h.cat) /\ h.conf >= h.t

\* The clause the gate of `fn` adds for the detected category
AddedClause(fn, cat) ==
  IF fn = "rag" THEN CatClause(<<TICK>> \o Replace(cat, TICK, <<BSL, TICK>>) \o <<TICK>>)
  ELSE CatClause(cat)

\* The category filter was applied: category_applied is true and the final
\* search's filter holds the clause of the detected category
HApplied ==
  /\ h.applied
  /\ h.out.has
  /\ Contains(h.out.v, AddedClause(h.fn, h.cat.v))

\* C1 as stated: RAGNaturalLanguageSearch.search and MiddlewareSearch.search
\* apply the category filter if and only if the category is non-null and the
\* confidence is >= the threshold.
C1_AppliedIffNonNull ==
  (h.step >= 1 /\ h.fn \in {"rag", "middleware_search"})
    => (HApplied <=> (h.cat # CatNull /\ h.conf >= h.t))

\* C1 amended: RAGNaturalLanguageSearch.search and MiddlewareSearch.search
\* apply the category filter if and only if the category is neither null nor
\* the empty string and the confidence is >= the threshold (equality included).
C1_AppliedIffTruthy ==
  (h.step >= 1 /\ h.fn \in {"rag", "middleware_search"})
    => (HApplied <=> (h.cat # CatNull /\ h.cat.v # <<>> /\ h.conf >= h.t))

\* C1 witness: confidence equal to the threshold, filter applied
C1_Witness ==
  /\ h.step = 1 /\ h.fn = "middleware_search"
  /\ h.cat = CatStr(<<"Y">>) /\ h.conf = h.t
  /\ HApplied

\* The category clauses of a filter expression
CategoryClauses(s) ==
  SelectSeq(Clauses(s), LAMBDA c : StartsWith(c, CategoriesAssign))

\* C6: merging a detected category Y into a filter that holds a categories:=X
\* clause (anywhere, separators spaced or not) yields exactly one category
\* clause, with value Y, in apply_category_filter and in
\* _search_with_category_filter.
C6_OneCategoryClauseAfterMerge ==
  ( /\ h.step >= 1 /\ h.fn \in {"apply_category_filter", "rag"}
    /\ HGate
    /\ Contains(h.f.v, CATX) )
    => /\ h.out.has
       /\ CountCategoryClauses(h.out.v) = 1
       /\ CategoryClauses(h.out.v) \in { <<CatClause(h.cat.v)>>,
                                         <<CatClause(<<TICK>> \o h.cat.v \o <<TICK>>)>> }

\* C7: merging the same category into the merged filter again gives the same
\* expression, for apply_category_filter and _search_with_category_filter.
C7_MergeIdempotent ==
  (h.step = 2 /\ h.fn \in {"apply_category_filter", "rag"} /\ HGate)
    => h.out2 = h.out

\* C8: for every input filter and every gate outcome the merged filter of
\* apply_category_filter, generate_vllm_format and MiddlewareSearch.search is
\* absent (or the empty string, which the index takes as no filter) or a list
\* of non-empty clauses joined by " && ".
C8_MergedFilterWellFormed ==
  (h.step >= 1 /\ h.fn \in {"apply_category_filter", "generate_vllm_format",
                            "middleware_search"})
    => (~h.out.has \/ h.out.v = <<>> \/ WellFormed(h.out.v))

\* The clauses of a filter expression, none for the empty expression
ClausesOf(s) == IF s = <<>> THEN <<>> ELSE Clauses(s)

\* A list without its k-th element
RemoveAt(seq, k) == SubSeq(seq, 1, k - 1) \o SubSeq(seq, k + 1, Len(seq))

\* C20: for every detected category string, one with backticks or with the &&
\* separator included, injecting it into a filter adds exactly one clause and
\* leaves every other clause unchanged (apply_category_filter and
\* generate_vllm_format replace the category clauses of the filter,
\* MiddlewareSearch.search keeps them): the merged filter, less one clause, is
\* the list of the input's clauses or of its clauses that are not category
\* clauses.  Stated for well-formed input filters and for the mergers that
\* inject the value unquoted.
C20_InjectionAddsExactlyOneClause ==
  ( /\ h.step >= 1
    /\ h.fn \in {"apply_category_filter", "generate_vllm_format", "middleware_search"}
    /\ HGate
    /\ (h.f.v = <<>> \/ WellFormed(h.f.v)) )
    => /\ h.out.has
       /\ \E k \in 1..Len(ClausesOf(h.out.v)) :
            RemoveAt(ClausesOf(h.out.v), k)
              \in { ClausesOf(h.f.v),
                    SelectSeq(ClausesOf(h.f.v),
                              LAMBDA c : ~StartsWith(c, CategoriesAssign)) }

\* ------------------------------------------------ properties of the pipeline

\* The final searches, and the context-retrieval and final searches, issued
\* so far (positions in the log of calls)
FinalCalls ==
  {i \in 1..Len(calls) : calls[i].svc = "index" /\ calls[i].purpose = "final"}
ContextOrFinalCalls ==
  {i \in 1..Len(calls) :
     calls[i].svc = "index" /\ calls[i].purpose \in {"retrieval", "fallback", "final"}}
SentFilterText(c) == GetOrEmpty(c.filter_by)

\* C2: in the decoupled deployment the filter sent to the final search
\* contains a category clause only if the classifier's confidence is a number
\* >= the threshold given to MiddlewareSearch.search.
C2_FinalCategoryOnlyAboveCallerThreshold ==
  variant = "decoupled" =>
    \A i \in FinalCalls :
      CountCategoryClauses(SentFilterText(calls[i])) > 0
        => llm.conf.t = "num" /\ llm.conf.v >= threshold

\* C3: the index and the classification service never call each other without
\* end: a search issued by the classification step is never classification
\* enabled, a chain of nested calls is at most index -> classifier -> index,
\* and one request makes at most one call to the classification service.
C3_NoReentrantClassification ==
  /\ \A i \in 1..Len(stack) :
       stack[i].svc = "index" /\ stack[i].by = "middleware" => stack[i].nl # "true"
  /\ Len(stack) <= 3
  /\ Cardinality({i \in 1..Len(stack) : stack[i].svc = "middleware"}) <= 1
  /\ Cardinality({i \in 1..Len(calls) : calls[i].svc = "middleware"}) <= 1

\* The classification service, called by the index on behalf of /api/search,
\* is running its own context retrieval
C3_Witness ==
  /\ Len(stack) = 3
  /\ stack[1].svc = "index" /\ stack[1].nl = "true"
  /\ stack[2].svc = "middleware"
  /\ stack[3].svc = "index" /\ stack[3].by = "middleware"

C5_FinalFilterAtMostOneCategoryClause ==
  \A i \in FinalCalls :
    CountCategoryClauses(SentFilterText(calls[i])) <= 1

\* C9: when a context-retrieval call to the index fails, the request still
\* ends with a response whose category_applied is false; nothing is raised.
C9_RetrievalFailureDegrades ==
  pc = "done" /\ retrieval_failed
    => resp.status = "response" /\ ~resp.category_applied

\* The language model answered, but not with a usable classification
Unusable(reply) ==
  reply.ok /\ (~reply.json \/ reply.conf.t \in {"null", "str", "absent"})

\* C10: whatever the classification service returns (malformed JSON, a
\* missing, null or non-numeric confidence), the classifier yields null
\* category and confidence 0.0 and the request goes on to a response: nothing
\* is raised before the final search.
C10_UnusableReplyDegrades ==
  variant \in {"decoupled", "rag"} /\ Unusable(llm)
  /\ stack = <<>> /\ pc \in {"await_final", "done"}
    => /\ classification = [set |-> TRUE, cat |-> CatNull, conf |-> ConfNum(0)]
       /\ resp.status = "raised" => FinalCalls # {}

\* C11: in every SearchResponse category_confidence is a number in [0,1],
\* whatever the classifier returned.
C11_ConfidenceInUnitInterval ==
  resp.status = "response"
    => /\ resp.category_confidence.t = "num"
       /\ resp.category_confidence.v >= 0
       /\ resp.category_confidence.v <= 100

\* C12: a failed /api/search request is answered 400 when the query is
\* missing, 503 when the index is unavailable or cannot be reached, 500
\* otherwise; an authentication failure is answered 500 with the error
\* "Configuration error", never with the text of the exception.
C12_ErrorStatusByCause ==
  variant = "nl" /\ pc = "done" /\ resp.status = "error_response"
    => /\ resp.code = (IF req.query = "absent" THEN 400
                       ELSE IF results.err.src = "unavailable" THEN 503
                       ELSE 500)
       /\ results.err.src = "auth" => resp.error = ConfigurationError

\* C13: every error response of /api/search, POST or GET, carries an error
\* field and a message field.
C13_ErrorBodyHasErrorAndMessage ==
  variant = "nl" /\ resp.status = "error_response"
    => resp.error # NoError /\ resp.message # "absent"

\* The query is absent or empty, or the count is not an integer in 1..100
InvalidRequest ==
  req.query \in {"absent", "empty"} \/ req.count \in {"out_of_range", "not_int"}

\* C14: a request whose query is missing or invalid is answered 400 and
\* causes no call to the index or to the classifier.
C14_InvalidRequestRejected ==
  variant = "nl" /\ InvalidRequest
    => /\ calls = <<>>
       /\ pc = "done" => resp.status = "error_response" /\ resp.code = 400

\* C16: GET /api/search answers as POST /api/search does for the same query
\* and count: when the other method answers before searching, this request
\* got that very answer; when the other method goes on to search, so did
\* this request (the search and what follows are the same code).
C16_GetAnswersAsPost ==
  variant = "nl" /\ pc = "done" /\ req.body = "json"
    => LET other == IF req.method = "GET" THEN search_before_index(req)
                    ELSE search_get_before_index(req)
       IN  IF other.status = "pending" THEN calls # <<>> ELSE resp = other

\* C15 as stated: the first pattern that matches decides: its number N when
\* 1 <= N <= 100, otherwise no match, whatever later patterns would capture;
\* without a match the caller's max_results is kept, with one it becomes N.
C15_FirstMatchingPatternDecides ==
  h.step = 1
    => LET q == Strip(LowerAll(h.query))
           k == FirstMatching(q)
           n == IF k = 0 THEN 0 ELSE PatternCapture(k, q)
           limit == IF n >= 1 /\ n <= 100 THEN n ELSE 0
       IN  /\ h.extracted_limit = limit
           /\ h.effective = (IF limit = 0 THEN h.max_results ELSE limit)

\* The patterns, in the order tried, whose capture is a number in 1..100
InRangePatterns(q) ==
  {k \in 1..4 : PatternCapture(k, q) >= 1 /\ PatternCapture(k, q) <= 100}

\* C15: the patterns are tried in order and the first one that matches with a
\* number N in 1..100 decides; a match with a number out of range is passed
\* over and the later patterns are still tried.  When no pattern matches in
\* range there is no match and the caller's max_results is kept; otherwise
\* max_results becomes N.
C15_FirstInRangeMatchDecides ==
  h.step = 1
    => LET q == Strip(LowerAll(h.query))
           inRange == InRangePatterns(q)
           limit == IF inRange = {} THEN 0
                    ELSE PatternCapture(CHOOSE k \in inRange : \A j \in inRange : k <= j, q)
       IN  /\ h.extracted_limit = limit
           /\ h.effective = (IF limit = 0 THEN h.max_results ELSE limit)

\* The first matching pattern captured a number out of range and a later
\* pattern gave the limit
C15_Witness ==
  /\ h.step = 1
  /\ h.query = <<"101", "top", "5">>
  /\ FirstMatching(h.query) = 1
  /\ h.extracted_limit = 5 /\ h.effective = 5

\* C17: in every response of the decoupled pipeline category_applied is true
\* exactly when the filter sent to the final search holds a category clause,
\* and detected_category is not null whenever it does.
C17_CategoryAppliedReportsSentFilter ==
  variant = "decoupled" /\ resp.status = "response"
    => \A i \in FinalCalls :
         LET sent == CountCategoryClauses(SentFilterText(calls[i])) > 0
         IN  /\ resp.category_applied <=> sent
             /\ sent => resp.detected_category # CatNull

\* C18: in the response of the legacy NaturalLanguageSearch.search
\* category_applied is true only when a category was detected and the
\* empirical confidence is >= confidence_threshold.
C18_LegacyAppliedOnlyAboveThreshold ==
  variant = "legacy" /\ resp.status = "response" /\ resp.category_applied
    => /\ resp.detected_category # CatNull
       /\ resp.category_confidence.v >= threshold

\* C19: while the middleware handles a completion request that carries a
\* context array, an empty one included, it makes no call to the index; its own
\* retrieval search is issued only for a request without the context field.
C19_GivenContextMeansNoIndexCall ==
  /\ \A i \in 1..Len(stack) :
       stack[i].svc = "middleware" /\ stack[i].ctx # "absent"
         => /\ stack[i].pc # "await_retrieve"
            /\ i < Len(stack) => stack[i + 1].svc # "index"
  /\ \A i \in 1..Len(stack) :
       stack[i].svc = "index" /\ stack[i].by = "middleware"
         => /\ i > 1
            /\ stack[i - 1].svc = "middleware"
            /\ stack[i - 1].ctx = "absent"
  /\ variant = "decoupled"
       => \A i \in 1..Len(calls) :
            ~(calls[i].svc = "index" /\ calls[i].by = "middleware")

\* A completion request with an empty context array has got past the context
\* step: the last thing logged is still that request, no index call after it
C19_Witness ==
  /\ stack # <<>> /\ Top.svc = "middleware" /\ Top.ctx = "empty"
  /\ Top.pc = "enrich"
  /\ calls[Len(calls)] = MiddlewareCall("MiddlewareSearch", "empty")

\* The calls search() itself issued so far (positions in the log of calls):
\* its retrieval searches, the text-only fallback included, and its calls to
\* the classifier
RetrievalCalls ==
  {i \in 1..Len(calls) :
     /\ calls[i].svc = "index" /\ calls[i].by \in {"MiddlewareSearch", "rag"}
     /\ calls[i].purpose \in {"retrieval", "fallback"}}
ClassificationCalls ==
  {i \in 1..Len(calls) :
     /\ calls[i].svc \in {"middleware", "openai"}
     /\ calls[i].by \in {"MiddlewareSearch", "rag"}}

\* The order of the steps of MiddlewareSearch.search and
\* RAGNaturalLanguageSearch.search, as the log of calls and the handler's
\* variables show it
StepsInOrder ==
  variant \in {"decoupled", "rag"} =>
    /\ \A c \in ClassificationCalls :
         /\ \E r \in RetrievalCalls : r < c
         /\ \A r \in RetrievalCalls : r < c
         /\ results.kind = "hits"
    /\ \A f \in FinalCalls :
         /\ \E c \in ClassificationCalls : c < f
         /\ \A c \in ClassificationCalls \cup RetrievalCalls : c < f
         /\ classification.set
    /\ (pc = "done") <=> (resp.status \in {"response", "raised"})
    /\ resp.status \in {"pending", "response", "raised"}

\* An outcome, once reached, is the request's outcome for good, and nothing
\* more is called
OutcomeIsFinal ==
  resp.status # "pending" => resp' = resp /\ calls' = calls

\* How far the handler has come, and how far the innermost call in progress
HandlerRank(p) ==
  CASE p \in {"await_retrieval", "await_search"} -> 1
    [] p = "await_fallback" -> 2
    [] p = "retrieved" -> 3
    [] p = "await_middleware" -> 4
    [] p \in {"await_final", "await_additional"} -> 5
    [] p = "done" -> 6
    [] OTHER -> 0
FrameRank(p) ==
  CASE p \in {"await_retrieve", "await_model"} -> 1
    [] p = "enrich" -> 2
    [] OTHER -> 0

\* A measure every step of a request increases: the steps are straight-line
\* code, no step is taken twice and none is undone
Progress ==
  1000 * HandlerRank(pc) + 20 * Len(calls) + 3 * (MaxDepth - Len(stack))
  + (IF stack = <<>> THEN 0 ELSE FrameRank(Top.pc))

ClassifierAnswered ==
  \E i \in 1..Len(calls) :
    calls[i].svc = "openai" /\ calls[i].by \in {"middleware", "rag"}

\* C22: in every execution of a request the classification service is called
\* at most once, and when that call fails (transport error, status other than
\* 200, timeout) the request goes on with null category and confidence 0.0: it
\* ends with a response, not with an error, and there is no second call.
C22_ClassifierOnceFailureDegrades ==
  variant \in {"decoupled", "rag"} =>
    /\ Cardinality(ClassificationCalls) <= 1
    /\ (ClassifierAnswered /\ llm = Failed /\ pc = "done")
         => /\ resp.status = "response"
            /\ resp.detected_category = CatNull
            /\ resp.category_confidence = ConfNum(0)
            /\ ~resp.category_applied

\* The keyword-only fallback searches issued so far (positions in the log)
FallbackCalls ==
  {i \in 1..Len(calls) : calls[i].svc = "index" /\ calls[i].purpose = "fallback"}

\* The primary search of the request failed because the index could not be
\* reached, was unavailable or answered with a server error
PrimaryFailedTransiently ==
  \/ variant = "legacy" /\ results.kind = "error" /\ results.err.src = "unavailable"
  \/ variant = "rag" /\ retrieval_failed

\* C23: when the primary index search of NaturalLanguageSearch or
\* RAGNaturalLanguageSearch fails for a transient connectivity reason, the
\* query is re-issued exactly once as a plain keyword search, without filter
\* and without classification; the request ends with the "temporarily
\* unavailable" error only if that fallback failed too.
C23_TransientFailureFallsBackOnce ==
  variant \in {"legacy", "rag"} =>
    /\ Cardinality(FallbackCalls) <= 1
    /\ \A i \in FallbackCalls :
         calls[i].nl # "true" /\ calls[i].filter_by = Absent
    /\ (PrimaryFailedTransiently /\ pc \notin {"await_retrieval", "await_search"})
         => Cardinality(FallbackCalls) = 1
    /\ (resp.status = "raised" /\ resp.error = TemporarilyUnavailable)
         => FallbackCalls # {}

\* The index has just rejected a call of the search method itself because of
\* the API key
AuthErrorReturned ==
  /\ variant \in {"legacy", "rag", "decoupled"}
  /\ stack = <<>> /\ ret.kind = "error" /\ ret.err.src = "auth"

\* C24: after the index rejects a call with an authentication error the
\* pipeline issues no further index call for the request (no fallback search)
\* and the request ends in the error outcome.
C24_NoCallAfterAuthenticationError ==
  [][AuthErrorReturned => calls' = calls /\ resp'.status = "raised"]_vars

\* The network calls the search method itself made and waited for (what a
\* called service calls in turn is not counted)
OwnCalls ==
  {i \in 1..Len(calls) : calls[i].by \in {"MiddlewareSearch", "rag", "legacy"}}

\* C25: no execution of a single request issues more than three blocking
\* network calls in total (context retrieval, classification, final search),
\* fallback searches included.
C25_AtMostThreeCalls ==
  variant \in {"decoupled", "rag", "legacy"} => Cardinality(OwnCalls) <= 3

\* The additional searches issued so far (positions in the log of calls)
AdditionalCalls ==
  {i \in 1..Len(calls) : calls[i].svc = "index" /\ calls[i].purpose = "additional"}

\* The clauses of a filter expression that are not empty and not category
\* clauses
NonCategoryClauses(s) ==
  SelectSeq(ClausesOf(s),
            LAMBDA c : c # <<>> /\ ~StartsWith(c, CategoriesAssign))

\* C29: when NaturalLanguageSearch.search detects a category and the
\* empirical confidence is below the threshold, exactly one additional index
\* search is issued, and its filter holds every non-category clause of the
\* extracted filter and no category clause, wherever the category clause
\* stands and however the && separators are spaced.
C29_OneAdditionalSearchWithoutCategory ==
  ( /\ variant = "legacy" /\ pc \in {"await_additional", "done"}
    /\ classification.set /\ Truthy(classification.cat)
    /\ classification.conf.v < threshold )
    => /\ Cardinality(AdditionalCalls) = 1
       /\ \A i \in AdditionalCalls :
            LET sent == SentFilterText(calls[i])
                extracted == GetOrEmpty(results.parsed.filter_by)
            IN  /\ CountCategoryClauses(sent) = 0
                /\ NonCategoryClauses(sent) = NonCategoryClauses(extracted)

\* ------------------------------------ properties of the context summarizers

\* The retrieved products that carry category c, in retrieval order
Tagged(products, c) ==
  SelectSeq(products, LAMBDA p : \E k \in 1..Len(p.categories) : p.categories[k] = c)

\* The categories of the retrieved products
CategoriesOf(products) ==
  UNION { {products[i].categories[k] : k \in 1..Len(products[i].categories)}
          : i \in 1..Len(products) }

\* Where category c is seen first: the first product that carries it, and
\* its place among that product's categories
FirstSeen(products, c) ==
  LET i == CHOOSE i \in 1..Len(products) :
             /\ \E k \in 1..Len(products[i].categories) : products[i].categories[k] = c
             /\ \A j \in 1..(i - 1) :
                  \A k \in 1..Len(products[j].categories) : products[j].categories[k] # c
      k == CHOOSE k \in 1..Len(products[i].categories) : products[i].categories[k] = c
  IN  10 * i + k

\* Category c ranks before category d: more items, or as many and seen first
RanksBefore(products, c, d) ==
  \/ Len(Tagged(products, c)) > Len(Tagged(products, d))
  \/ /\ Len(Tagged(products, c)) = Len(Tagged(products, d))
     /\ FirstSeen(products, c) < FirstSeen(products, d)

\* The categories by item count, highest first, ties in first-seen order
RankedCategories(products) ==
  LET cs == CategoriesOf(products)
  IN  [k \in 1..Cardinality(cs) |->
         CHOOSE c \in cs : Cardinality({d \in cs : RanksBefore(products, d, c)}) = k - 1]

\* The K highest-ranked categories, each with its first N items
TopCategoriesWithSamples(products, K, N) ==
  LET top == Take(RankedCategories(products), K)
  IN  [i \in 1..Len(top) |->
         [category |-> top[i],
          samples |-> Take(Tagged(products, top[i]), N)]]

\* The ids of a list of products
Ids(items) == [k \in 1..Len(items) |-> items[k].id]

\* C26: for every retrieved item list the summarizer returns at most K
\* categories with at most N samples each; the categories are the K with the
\* highest item count, ties in first-seen order, an item with several
\* categories counting under each; each category's samples are its first N
\* items in retrieval order.  (_extract_category_context returns them by
\* category, _extract_context, with K = 5 and N = 3, as one list.)
C26_TopCategoriesFirstSamples ==
  /\ (h.step >= 1 /\ h.fn = "rag")
       => LET expected == TopCategoriesWithSamples(h.products, h.max_categories,
                                                   h.samples_per_category)
          IN  /\ Len(h.context) <= h.max_categories
              /\ \A i \in 1..Len(h.context) :
                   Len(h.context[i].samples) <= h.samples_per_category
              /\ h.context = [i \in 1..Len(expected) |->
                                [category |-> expected[i].category,
                                 samples |-> Ids(expected[i].samples)]]
  /\ (h.step >= 1 /\ h.fn = "decoupled")
       => LET expected == TopCategoriesWithSamples(h.products, ContextCategories,
                                                   ContextSamples)
          IN  h.flat = Concat([i \in 1..Len(expected) |-> expected[i].samples])

\* More categories than asked for, more items in a category than samples
\* asked for, and two categories with the same item count
C26_Witness ==
  /\ h.step = 1 /\ h.fn = "rag"
  /\ Cardinality(CategoriesOf(h.products)) > h.max_categories
  /\ Len(h.context) = h.max_categories
  /\ \E c, d \in CategoriesOf(h.products) :
       /\ c # d
       /\ Len(Tagged(h.products, c)) = Len(Tagged(h.products, d))
       /\ Len(Tagged(h.products, c)) > h.samples_per_category
       /\ h.context[1].category = c

\* C27: in the decoupled pipeline the categories shown to the classifier,
\* after _extract_context has flattened the samples and build_enriched_prompt
\* has grouped them again, are exactly the top-5 categories by item count of
\* the retrieved set, in the same rank order.
C27_ShownCategoriesAreTopFive ==
  (h.step = 2 /\ h.fn = "decoupled")
    => h.shown = Take(RankedCategories(h.products), PromptCategories)

\* ------------------------------------ properties of the result partitioner

\* One of the product's category paths holds the category somewhere, capitals
\* and small letters taken as the same
HasCategoryPath(product, category) ==
  \E k \in 1..Len(product.categories) :
    LET path == product.categories[k]
    IN  \E at \in 0..(Len(path) - Len(category)) :
          \A i \in 1..Len(category) :
            LowerChar(path[at + i]) = LowerChar(category[i])

\* The list holds products of all_results, each once, in their order there
\* (a product's id is its place in all_results)
InOriginalOrder(items, all_results) ==
  /\ \A i \in 1..Len(items) :
       items[i].id \in 1..Len(all_results) /\ items[i] = all_results[items[i].id]
  /\ \A i, j \in 1..Len(items) : i < j => items[i].id < items[j].id

====
